---- MODULE Spec2Model ----
(***************************************************************************)
(* Model of solomon-vrptw: the Location cost model, Route validity, the    *)
(* nearest-neighbour construction heuristic and the ant-colony search.     *)
(*                                                                         *)
(* Numbers.  Coordinates, demands and times are u16 in the source; costs   *)
(* are f32.  The instance pools below place all locations so that every    *)
(* squared distance is a perfect square, hence every f32 cost the program  *)
(* computes on them is an integer below 2^24 and f32 arithmetic on it is   *)
(* exact.  Costs are therefore integers here.  Sqrt is the integer part of *)
(* the root; it differs from the f32 root only on non-squares, which arise *)
(* only from a wrapped 16-bit radicand (see distance_to).                  *)
(*                                                                         *)
(* Overflow.  u16 arithmetic panics in a build with overflow checks and    *)
(* wraps modulo 2^16 in a build without them; an action whose code can     *)
(* overflow chooses between the two outcomes.                              *)
(***************************************************************************)
EXTENDS Integers, Sequences, FiniteSets, TLC

VARIABLES
    fn,         \* direct call of a library function: its name ("none" in a solver run)
    args,       \* the arguments of that call
    ret,        \* its outcome: [tag |-> "pending" | "ok" | "panic", val |-> ...]
    vrp,        \* the Vrp: warehouse, customers, n_vehicles, vehicle_capacity, routes
    nn,         \* nearest_neighbour_heuristic: position (pc), locals, returned routes
    aco         \* aco_heuristic and construct_routes: position (pc), params, locals

fnvars == <<fn, args, ret>>

vars == <<fn, args, ret, vrp, nn, aco>>

U16 == 65536

Max(a, b) == IF a >= b THEN a ELSE b

AbsDiff(a, b) == IF a >= b THEN a - b ELSE b - a

RECURSIVE SqrtIter(_, _, _)
SqrtIter(n, lo, hi) ==
    IF lo >= hi THEN lo
    ELSE LET mid == (lo + hi + 1) \div 2
         IN  IF mid * mid <= n THEN SqrtIter(n, mid, hi)
             ELSE SqrtIter(n, lo, mid - 1)

\* f32::sqrt on the integers of the model: exact on perfect squares.
Sqrt(n) == SqrtIter(n, 0, IF n < U16 THEN 255 ELSE 46340)

Loc(id, x, y, demand, ready_time, due_date, service_time) ==
    [id |-> id, x |-> x, y |-> y, demand |-> demand, ready_time |-> ready_time,
     due_date |-> due_date, service_time |-> service_time]

(***************************************************************************)
(* Location                                                                *)
(***************************************************************************)

\* u16::pow(d, 2) without overflow checks.
PowWrap(d) == (d * d) % U16

\* The u16 argument of f32::from in distance_to, without overflow checks.
Radicand(self, other) ==
    (PowWrap(AbsDiff(other.x, self.x)) + PowWrap(AbsDiff(other.y, self.y))) % U16

\* Whether a power or the sum in distance_to exceeds u16.
DistanceOverflows(self, other) ==
    LET dx == AbsDiff(other.x, self.x)
        dy == AbsDiff(other.y, self.y)
    IN  dx * dx + dy * dy >= U16

distance_to(self, other) == Sqrt(Radicand(self, other))

\* cost_to without the waiting time.
cost_to_NoWaiting(self, other, current_cost) ==
    current_cost + distance_to(self, other) + other.service_time

cost_to(self, other, current_cost) ==
    LET cc == current_cost + distance_to(self, other)
    IN  cc + Max(other.ready_time - cc, 0) + other.service_time

find_reachable(self, others, current_cost) ==
    SelectSeq(others, LAMBDA customer :
        customer.due_date >= distance_to(self, customer) + current_cost)

\* Without the filter on the demand
find_deliverable_AnyDemand(self, others, current_cost, remaining_capacity) ==
    find_reachable(self, others, current_cost)

find_deliverable(self, others, current_cost, remaining_capacity) ==
    SelectSeq(find_reachable(self, others, current_cost),
              LAMBDA customer : customer.demand <= remaining_capacity)

\* max_by in place of min_by: the comparison reversed.
RECURSIVE MinByCost_Reversed(_, _, _, _, _)
MinByCost_Reversed(self, seq, current_cost, i, best) ==
    IF i > Len(seq) THEN best
    ELSE MinByCost_Reversed(self, seq, current_cost, i + 1,
                   IF cost_to(self, best, current_cost) < cost_to(self, seq[i], current_cost)
                   THEN seq[i] ELSE best)

\* min_by keeping the last of several minima.
RECURSIVE MinByCost_LastWins(_, _, _, _, _)
MinByCost_LastWins(self, seq, current_cost, i, best) ==
    IF i > Len(seq) THEN best
    ELSE MinByCost_LastWins(self, seq, current_cost, i + 1,
                   IF cost_to(self, best, current_cost) >= cost_to(self, seq[i], current_cost)
                   THEN seq[i] ELSE best)

\* Iterator::min_by over a non-empty sequence: the accumulator is replaced only by
\* a strictly smaller element, so the first minimum wins.
RECURSIVE MinByCost(_, _, _, _, _)
MinByCost(self, seq, current_cost, i, best) ==
    IF i > Len(seq) THEN best
    ELSE MinByCost(self, seq, current_cost, i + 1,
                   IF cost_to(self, best, current_cost) > cost_to(self, seq[i], current_cost)
                   THEN seq[i] ELSE best)

\* find_cheapest_deliverable dropping from the list whatever lies where the cheapest does.
find_cheapest_deliverable_ByPosition(self, others, current_cost, remaining_capacity) ==
    LET deliverable == find_deliverable(self, others, current_cost, remaining_capacity)
    IN  IF deliverable = <<>> THEN [some |-> FALSE]
        ELSE LET cheapest == MinByCost(self, deliverable, current_cost, 2, deliverable[1])
             IN  [some     |-> TRUE,
                  cheapest |-> cheapest,
                  cost     |-> cost_to(self, cheapest, current_cost),
                  others   |-> SelectSeq(others, LAMBDA location :
                                   location.x # cheapest.x \/ location.y # cheapest.y)]

find_cheapest_deliverable(self, others, current_cost, remaining_capacity) ==
    LET deliverable == find_deliverable(self, others, current_cost, remaining_capacity)
    IN  IF deliverable = <<>> THEN [some |-> FALSE]
        ELSE LET cheapest == MinByCost(self, deliverable, current_cost, 2, deliverable[1])
             IN  [some     |-> TRUE,
                  cheapest |-> cheapest,
                  cost     |-> cost_to(self, cheapest, current_cost),
                  others   |-> SelectSeq(others, LAMBDA location : location # cheapest)]

\* Location::cost_to_deliver is called by Route::total_cost and construct_routes but
\* is not among the sources; it is the specification's arrival_cost.
cost_to_deliver(self, other, current_cost) ==
    LET arrival == current_cost + distance_to(self, other)
    IN  arrival + Max(0, other.ready_time - arrival) + other.service_time

(***************************************************************************)
(* Route: [warehouse, customers]                                           *)
(***************************************************************************)

Route(warehouse, customers) == [warehouse |-> warehouse, customers |-> customers]

\* Route::len
RouteLen(self) == Len(self.customers) + 2

\* impl Index<usize> for Route, for 0 <= index <= customers.len() + 1
RouteIndex(self, index) ==
    IF index = 0 THEN self.warehouse
    ELSE IF index <= Len(self.customers) THEN self.customers[index]
    ELSE self.warehouse

RECURSIVE SumDistance(_, _)
SumDistance(self, i) ==
    IF i >= RouteLen(self) - 1 THEN 0
    ELSE distance_to(RouteIndex(self, i), RouteIndex(self, i + 1)) + SumDistance(self, i + 1)

total_distance(self) == SumDistance(self, 0)

RECURSIVE TotalCostFrom(_, _, _)
TotalCostFrom(self, i, cost) ==
    IF i >= RouteLen(self) - 1 THEN cost
    ELSE TotalCostFrom(self, i + 1,
                       cost_to_deliver(RouteIndex(self, i), RouteIndex(self, i + 1), cost))

\* The loop of total_cost stopped one step early: the cost up to the last customer,
\* the return to the warehouse left out.
RECURSIVE OneWayCostFrom(_, _, _)
OneWayCostFrom(self, i, cost) ==
    IF i >= RouteLen(self) - 2 THEN cost
    ELSE OneWayCostFrom(self, i + 1,
                        cost_to_deliver(RouteIndex(self, i), RouteIndex(self, i + 1), cost))

total_cost_OneWay(self) == OneWayCostFrom(self, 0, 0)

total_cost(self) == TotalCostFrom(self, 0, 0)

\* The sum of the demands as a mathematical integer.
RECURSIVE DemandSum(_)
DemandSum(customers) ==
    IF customers = <<>> THEN 0 ELSE Head(customers).demand + DemandSum(Tail(customers))

\* Whether a partial sum of Iterator::sum::<u16> exceeds u16.
TotalDemandOverflows(customers) == DemandSum(customers) >= U16

\* Route::total_demand_with, without overflow checks.
total_demand_with(customers) == DemandSum(customers) % U16

total_demand(self) == total_demand_with(self.customers)

\* The loop of is_valid / is_valid_with from customer i on, cost being the value
\* of the variable `cost` at the top of the iteration; returns the cost after the
\* last customer, or -1 once a due date is exceeded.
RECURSIVE ValidLoop(_, _, _)
ValidLoop(customers, i, cost) ==
    IF cost > customers[i].due_date THEN -1
    ELSE LET waited == cost + Max(customers[i].ready_time - cost, 0)
             served == waited + customers[i].service_time
         IN  IF i < Len(customers)
             THEN ValidLoop(customers, i + 1, cost_to(customers[i], customers[i + 1], served))
             ELSE served

is_valid_with(self, customers, capacity) ==
    IF total_demand_with(customers) > capacity THEN FALSE
    ELSE IF customers = <<>> THEN TRUE
    ELSE LET after == ValidLoop(customers, 1, cost_to(self.warehouse, customers[1], 0))
         IN  IF after < 0 THEN FALSE
             ELSE ~(cost_to(customers[Len(customers)], self.warehouse, after)
                        > self.warehouse.due_date)

is_valid(self, capacity) ==
    IF total_demand(self) > capacity THEN FALSE
    ELSE IF self.customers = <<>> THEN TRUE
    ELSE LET after == ValidLoop(self.customers, 1,
                                cost_to(self.warehouse, self.customers[1], 0))
         IN  IF after < 0 THEN FALSE
             ELSE ~(cost_to(self.customers[Len(self.customers)], self.warehouse, after)
                        > self.warehouse.due_date)

\* customers[0..i] ++ [customer] ++ customers[i..], i counted from 0
InsertAt(customers, i, customer) ==
    SubSeq(customers, 1, i) \o <<customer>> \o SubSeq(customers, i + 1, Len(customers))

RECURSIVE CostWithFrom(_, _, _)
\* the for loop of Route::total_cost_with, i counted from 1
CostWithFrom(customers, i, cost) ==
    IF i >= Len(customers) THEN cost
    ELSE CostWithFrom(customers, i + 1, cost_to_deliver(customers[i], customers[i + 1], cost))

\* Whether Route::total_cost_with(customers) panics: customers[0] on an empty slice,
\* or self.customers[customers.len() - 1] beyond the route's own customers.
TotalCostWithPanics(self, customers) ==
    customers = <<>> \/ Len(customers) > Len(self.customers)

\* Route::total_cost_with(customers), where it does not panic
route_total_cost_with(self, customers) ==
    cost_to_deliver(self.customers[Len(customers)], self.warehouse,
                    CostWithFrom(customers, 1,
                                 cost_to_deliver(self.warehouse, customers[1], 0)))

RECURSIVE TryInsertLoop(_, _, _, _, _, _)
\* The loop of Route::try_insert from index i (counted from 0) with the locals
\* min_cost (-1 for f32::INFINITY) and min_index; "panic" or the locals after the loop.
TryInsertLoop(self, customer, capacity, i, min_cost, min_index) ==
    IF i >= Len(self.customers) THEN [panic |-> FALSE, min_cost |-> min_cost,
                                     min_index |-> min_index]
    ELSE LET new_customers == InsertAt(self.customers, i, customer)
         IN  IF ~is_valid_with(self, new_customers, capacity)
             THEN TryInsertLoop(self, customer, capacity, i + 1, min_cost, min_index)
             ELSE IF TotalCostWithPanics(self, new_customers) THEN [panic |-> TRUE]
             ELSE LET cost == route_total_cost_with(self, new_customers)
                  IN  IF min_cost < 0 \/ cost < min_cost
                      THEN TryInsertLoop(self, customer, capacity, i + 1, cost, i)
                      ELSE TryInsertLoop(self, customer, capacity, i + 1, min_cost,
                                         min_index)

\* Route::try_insert: [panic |-> TRUE], or [panic |-> FALSE, some |-> FALSE] for None,
\* or [panic |-> FALSE, some |-> TRUE, cost, index] for Some((cost, index))
try_insert(self, customer, capacity) ==
    LET after == TryInsertLoop(self, customer, capacity, 0, -1, 0)
    IN  IF after.panic THEN [panic |-> TRUE]
        ELSE IF after.min_cost < 0 THEN [panic |-> FALSE, some |-> FALSE]
        ELSE [panic |-> FALSE, some |-> TRUE, cost |-> after.min_cost,
              index |-> after.min_index]

(***************************************************************************)
(* Direct calls of the library functions (the crate exports Location and   *)
(* Route with public fields, so a caller can pass any value).              *)
(***************************************************************************)

\* Depots: a generous window, and one that closes at 15.
Depot == Loc(0, 0, 0, 0, 0, 1000, 0)
DepotTight == Loc(0, 0, 0, 0, 0, 15, 0)

\* Customers on the x axis: all distances between them and the depots are integers.
CustomerPool ==
    { Loc(1, 10, 0, 5, 0, 1000, 0),     \* the customer of the trivial instance
      Loc(2, 5, 0, 5, 0, 100, 0),
      Loc(3, 10, 0, 5, 0, 100, 0),
      Loc(4, 20, 0, 5, 0, 100, 0),
      Loc(5, 10, 0, 5, 0, 10, 5),       \* due on arrival, then 5 of service
      Loc(6, 5, 0, 10, 30, 40, 10),     \* opens at 30: waiting
      Loc(7, 20, 0, 30, 0, 1000, 0),    \* demand above every capacity of the pool
      Loc(8, 20, 0, 5, 0, 15, 0) }      \* due before it can be reached from the depot

\* Customers whose demands add up beyond u16.
HeavyPool ==
    { Loc(11, 5, 0, 40000, 0, 1000, 0),
      Loc(12, 10, 0, 30000, 0, 1000, 0),
      Loc(13, 20, 0, 100, 0, 1000, 0) }

\* Points for distance_to, some further apart than 255.
FarPoints ==
    { Loc(0, x, y, 0, 0, 0, 0) : x \in {0, 3, 200, 256, 300, 30000}, y \in {0, 4, 150, 400} }

CapacityPool == {0, 5, 10, 20}

CostPool == {0, 5, 10, 15, 35, 100}

MaxLen == 3

SeqsUpTo(S, n) == UNION { [1..k -> S] : k \in 0..n }

FnCalls ==
    [fn : {"distance_to"}, self : FarPoints, other : FarPoints]
    \cup [fn : {"cost_to"}, self : CustomerPool \cup {Depot},
          other : CustomerPool \cup {Depot}, current_cost : CostPool]
    \cup [fn : {"find_cheapest_deliverable"}, self : {Depot, Loc(2, 5, 0, 5, 0, 100, 0)},
          others : SeqsUpTo(CustomerPool, MaxLen), current_cost : {0, 5, 35},
          remaining_capacity : {0, 5, 20}]
    \cup [fn : {"is_valid"},
          self : { Route(w, cs) : w \in {Depot, DepotTight},
                                  cs \in SeqsUpTo(CustomerPool, MaxLen)
                                         \cup SeqsUpTo(HeavyPool, MaxLen) },
          capacity : CapacityPool \cup {5000}]
    \cup [fn : {"try_insert"},
          self : { Route(w, cs) : w \in {Depot, DepotTight},
                                  cs \in SeqsUpTo(CustomerPool, MaxLen) },
          customer : { Loc(1, 10, 0, 5, 0, 1000, 0), Loc(2, 5, 0, 5, 0, 100, 0),
                       Loc(8, 20, 0, 5, 0, 15, 0) },
          capacity : {10, 20}]

Pending == [tag |-> "pending"]
Panic == [tag |-> "panic"]
Ok(v) == [tag |-> "ok", val |-> v]

\* Vrp::default(): no solver runs beside a direct call.
\* Option<Vec<f32>>: None, the Default of the field heuristic_cost_history
NoHistory == [some |-> FALSE]

NoVrp == [warehouse |-> Loc(0, 0, 0, 0, 0, 0, 0), customers |-> <<>>, n_vehicles |-> 0,
          vehicle_capacity |-> 0, routes |-> <<>>, heuristic_cost_history |-> NoHistory]

NotRunning == [pc |-> "idle"]

InitFn ==
    /\ args \in FnCalls
    /\ fn = args.fn
    /\ ret = Pending
    /\ vrp = NoVrp
    /\ nn = NotRunning
    /\ aco = NotRunning

\* Location::distance_to; the powers and their sum may exceed u16.
CallDistanceTo ==
    /\ fn = "distance_to" /\ ret = Pending
    /\ IF DistanceOverflows(args.self, args.other)
       THEN ret' \in {Panic, Ok(distance_to(args.self, args.other))}
       ELSE ret' = Ok(distance_to(args.self, args.other))
    /\ UNCHANGED <<fn, args, vrp, nn, aco>>

\* Location::cost_to
CallCostTo ==
    /\ fn = "cost_to" /\ ret = Pending
    /\ ret' = Ok(cost_to(args.self, args.other, args.current_cost))
    /\ UNCHANGED <<fn, args, vrp, nn, aco>>

\* Location::find_cheapest_deliverable
CallFindCheapestDeliverable ==
    /\ fn = "find_cheapest_deliverable" /\ ret = Pending
    /\ ret' = Ok(find_cheapest_deliverable(args.self, args.others, args.current_cost,
                                           args.remaining_capacity))
    /\ UNCHANGED <<fn, args, vrp, nn, aco>>

\* Route::is_valid; the sum in total_demand may exceed u16.
CallIsValid ==
    /\ fn = "is_valid" /\ ret = Pending
    /\ IF TotalDemandOverflows(args.self.customers)
       THEN ret' \in {Panic, Ok(is_valid(args.self, args.capacity))}
       ELSE ret' = Ok(is_valid(args.self, args.capacity))
    /\ UNCHANGED <<fn, args, vrp, nn, aco>>

\* Route::try_insert
CallTryInsert ==
    /\ fn = "try_insert" /\ ret = Pending
    /\ LET r == try_insert(args.self, args.customer, args.capacity)
       IN  ret' = IF r.panic THEN Panic ELSE Ok(r)
    /\ UNCHANGED <<fn, args, vrp, nn, aco>>

NextFn ==
    \/ CallDistanceTo \/ CallCostTo \/ CallFindCheapestDeliverable \/ CallIsValid
    \/ CallTryInsert

SpecFn == InitFn /\ [][NextFn]_vars

(***************************************************************************)
(* Vrp::nearest_neighbour_heuristic                                        *)
(***************************************************************************)

MaxCust == 3

\* The heuristic never returns when a customer cannot be delivered from the depot:
\* the model follows it for one route more than there are customers.
MaxRoutes == MaxCust + 1

\* Vrp::new(warehouse, customers, n_vehicles, vehicle_capacity)
NewVrp(warehouse, customers, n_vehicles, vehicle_capacity) ==
    [warehouse |-> warehouse, customers |-> customers, n_vehicles |-> n_vehicles,
     vehicle_capacity |-> vehicle_capacity, routes |-> <<>>,
     heuristic_cost_history |-> NoHistory]

NoCall == [fn |-> "none"]

\* u16::saturating_sub
SaturatingSub(a, b) == IF a >= b THEN a - b ELSE 0

\* The locals of nearest_neighbour_heuristic at the head of `while !customers.is_empty()`.
NNAtLoopHead(customers, routes) ==
    [pc |-> "outer", customers |-> customers, routes |-> routes, route |-> <<>>,
     current |-> vrp.warehouse, cost |-> 0, demand |-> 0, result |-> <<>>]

NNInstances ==
    { NewVrp(w, cs, 1, cap) : w \in {Depot, DepotTight},
                              cs \in SeqsUpTo(CustomerPool, MaxCust),
                              cap \in {10, 20} }

InitNN ==
    /\ fn = "none" /\ args = NoCall /\ ret = Pending
    /\ vrp \in NNInstances
    /\ nn = NNAtLoopHead(vrp.customers, <<>>)
    /\ aco = NotRunning

\* while !customers.is_empty() { let mut route = ...; current = &route.warehouse; ...
NNStartRoute ==
    /\ aco.pc = "idle"
    /\ nn.pc = "outer"
    /\ nn.customers # <<>>
    /\ nn' = [nn EXCEPT !.pc = "inner", !.route = <<>>, !.current = vrp.warehouse,
                        !.cost = 0, !.demand = vrp.warehouse.demand]
    /\ UNCHANGED <<fn, args, ret, vrp, aco>>

\* One pass of the inner loop in which find_cheapest_deliverable returns Some.
NNVisit ==
    /\ nn.pc = "inner"
    /\ LET a == find_cheapest_deliverable(nn.current, nn.customers, nn.cost,
                    SaturatingSub(vrp.vehicle_capacity, nn.demand))
       IN  /\ a.some
           /\ nn' = [nn EXCEPT !.current = a.cheapest,
                               !.customers = a.others,
                               !.cost = nn.cost + a.cost,
                               !.demand = nn.demand + a.cheapest.demand,
                               !.route = Append(nn.route, a.cheapest)]
    /\ UNCHANGED <<fn, args, ret, vrp, aco>>

\* find_cheapest_deliverable returns None: break, routes.push(route).
NNCloseRoute ==
    /\ nn.pc = "inner"
    /\ ~find_cheapest_deliverable(nn.current, nn.customers, nn.cost,
            SaturatingSub(vrp.vehicle_capacity, nn.demand)).some
    /\ Len(nn.routes) < MaxRoutes
    /\ nn' = NNAtLoopHead(nn.customers, Append(nn.routes, Route(vrp.warehouse, nn.route)))
    /\ UNCHANGED <<fn, args, ret, vrp, aco>>

\* customers is empty: VrpResult::from_vrp(self, routes, None)
NNReturn ==
    /\ aco.pc = "idle"
    /\ nn.pc = "outer"
    /\ nn.customers = <<>>
    /\ nn' = [nn EXCEPT !.pc = "done", !.result = nn.routes]
    /\ UNCHANGED <<fn, args, ret, vrp, aco>>

NextNN == NNStartRoute \/ NNVisit \/ NNCloseRoute \/ NNReturn

SpecNN == InitNN /\ [][NextNN]_vars

(***************************************************************************)
(* Vrp::aco_heuristic                                                      *)
(*                                                                         *)
(* Pheromone amounts, rho and q0 are f32 in the source.  They are exact    *)
(* non-negative rationals <<numerator, denominator>> here, in lowest terms,*)
(* with <<1, 0>> for +infinity (the f32 result of dividing a positive      *)
(* number by 0.0).                                                         *)
(***************************************************************************)

RECURSIVE GCD(_, _)
GCD(a, b) == IF b = 0 THEN a ELSE GCD(b, a % b)

RInf == <<1, 0>>

IsInf(r) == r[2] = 0

Rat(n, d) == IF d = 0 THEN RInf ELSE LET g == GCD(n, d) IN <<n \div g, d \div g>>

RInt(n) == <<n, 1>>

\* a + b over the least common denominator, which keeps the products small
RAdd(a, b) ==
    IF IsInf(a) \/ IsInf(b) THEN RInf
    ELSE LET g == GCD(a[2], b[2])
         IN  Rat(a[1] * (b[2] \div g) + b[1] * (a[2] \div g), (a[2] \div g) * b[2])

\* a * b, for a and b not zero when the other is infinite
RMul(a, b) ==
    IF IsInf(a) \/ IsInf(b) THEN RInf
    ELSE LET p == Rat(a[1], b[2])
             q == Rat(b[1], a[2])
         IN  <<p[1] * q[1], p[2] * q[2]>>

\* a / b, for a > 0 when b is zero
RDiv(a, b) ==
    IF IsInf(a) THEN RInf
    ELSE IF IsInf(b) THEN <<0, 1>>
    ELSE Rat(a[1] * b[2], a[2] * b[1])

\* 1.0 - a, for a <= 1
ROneMinus(a) == Rat(a[2] - a[1], a[2])

RLeq(a, b) == IF IsInf(b) THEN TRUE ELSE IF IsInf(a) THEN FALSE ELSE a[1] * b[2] <= b[1] * a[2]

\* f32::INFINITY as the initial best_cost; costs are integers >= 0.
INFINITY == -1

\* `cost <= best_cost` in the place of `cost < best_cost`
CostLess_OrEqual(cost, best_cost) == best_cost = INFINITY \/ cost <= best_cost

CostLess(cost, best_cost) == best_cost = INFINITY \/ cost < best_cost

\* Location::cost_to_delivery_window is called by select_next_location and
\* Route::total_cost_no_service_time but is not among the sources: the cumulative
\* cost of reaching the other location's window, its service time left out.
cost_to_delivery_window(self, other, current_cost) ==
    LET arrival == current_cost + distance_to(self, other)
    IN  arrival + Max(0, other.ready_time - arrival)

RECURSIVE TotalCostNoServiceFrom(_, _, _)
TotalCostNoServiceFrom(self, i, cost) ==
    IF i >= RouteLen(self) - 1 THEN cost
    ELSE TotalCostNoServiceFrom(self, i + 1,
             cost_to_delivery_window(RouteIndex(self, i), RouteIndex(self, i + 1), cost))

total_cost_no_service_time(self) == TotalCostNoServiceFrom(self, 0, 0)

RECURSIVE total_cost_with(_)
\* Vrp::total_cost_with(routes); Vrp::total_cost is total_cost_with(self.routes)
total_cost_with(routes) ==
    IF routes = <<>> THEN 0 ELSE total_cost(Head(routes)) + total_cost_with(Tail(routes))

RECURSIVE total_cost_no_service_time_with(_)
total_cost_no_service_time_with(routes) ==
    IF routes = <<>> THEN 0
    ELSE total_cost_no_service_time(Head(routes))
            + total_cost_no_service_time_with(Tail(routes))

\* The keys update_pheromones and set_pheromones touch for one route, in order:
\* (warehouse, first), (customers[i], customers[i+1]).., (last, warehouse).
RouteEdges(route) ==
    [ i \in 1..(Len(route.customers) + 1) |->
        << RouteIndex(route, i - 1), RouteIndex(route, i) >> ]

RECURSIVE SolutionEdges(_)
SolutionEdges(routes) ==
    IF routes = <<>> THEN <<>> ELSE RouteEdges(Head(routes)) \o SolutionEdges(Tail(routes))

\* first().unwrap() / last().unwrap() on a route without customers
HasEmptyRoute(routes) == \E i \in 1..Len(routes) : routes[i].customers = <<>>

\* get_mut(..).unwrap() / get(..).expect(..) on a key that was never inserted
MissingKey(pheromones, edges) == \E i \in 1..Len(edges) : edges[i] \notin DOMAIN pheromones

\* The insert loop over the customers alone, the depot left out
BaselinePheromones_CustomersOnly(pheromone_amt) ==
    LET locations == { vrp.customers[i] : i \in 1..Len(vrp.customers) }
    IN  [ key \in { k \in locations \X locations : k[1] # k[2] } |-> pheromone_amt ]

\* set_pheromones, the insert loop: every ordered pair of unequal locations
BaselinePheromones(pheromone_amt) ==
    LET locations == { vrp.customers[i] : i \in 1..Len(vrp.customers) } \cup {vrp.warehouse}
    IN  [ key \in { k \in locations \X locations : k[1] # k[2] } |-> pheromone_amt ]

RECURSIVE AddDeposits(_, _, _)
\* `*pheromones.get_mut(key).unwrap() += deposit` for each key of edges, in order
AddDeposits(pheromones, edges, deposit) ==
    IF edges = <<>> THEN pheromones
    ELSE AddDeposits([pheromones EXCEPT ![Head(edges)] = RAdd(@, deposit)],
                     Tail(edges), deposit)

\* set_pheromones without its deposit loop
set_pheromones_NoReward(pheromone_amt, routes, reward_existing_routes) ==
    [panic |-> FALSE, pheromones |-> BaselinePheromones(pheromone_amt)]

\* set_pheromones(pheromone_amt, pheromones, reward_existing_routes) with
\* self.routes = routes: [panic |-> TRUE] or [panic |-> FALSE, pheromones |-> ..]
set_pheromones(pheromone_amt, routes, reward_existing_routes) ==
    LET base == BaselinePheromones(pheromone_amt)
    IN  IF reward_existing_routes /\ routes # <<>>
        THEN IF HasEmptyRoute(routes) \/ MissingKey(base, SolutionEdges(routes))
             THEN [panic |-> TRUE]
             ELSE [panic |-> FALSE,
                   pheromones |-> AddDeposits(base, SolutionEdges(routes),
                                      RDiv(RInt(1), RInt(total_cost_with(routes))))]
        ELSE [panic |-> FALSE, pheromones |-> base]

RECURSIVE Evaporate_Subtract(_, _, _, _)
\* `(1.0 - params.rho) * *pheromone - deposit` in the place of `.. + deposit`
Evaporate_Subtract(pheromones, edges, rho, deposit) ==
    IF edges = <<>> THEN pheromones
    ELSE Evaporate_Subtract(
             [pheromones EXCEPT ![Head(edges)] =
                  RAdd(RMul(ROneMinus(rho), @), <<0 - deposit[1], deposit[2]>>)],
             Tail(edges), rho, deposit)

RECURSIVE Evaporate(_, _, _, _)
\* `*pheromone = (1.0 - params.rho) * *pheromone + deposit` for each key of edges
Evaporate(pheromones, edges, rho, deposit) ==
    IF edges = <<>> THEN pheromones
    ELSE Evaporate([pheromones EXCEPT ![Head(edges)] = RAdd(RMul(ROneMinus(rho), @), deposit)],
                   Tail(edges), rho, deposit)

RECURSIVE AllEdges(_)
\* the keys of all routes of all solutions, in the order of the loops
AllEdges(solutions) ==
    IF solutions = <<>> THEN <<>> ELSE SolutionEdges(Head(solutions)) \o AllEdges(Tail(solutions))

RECURSIVE AnyEmptyRoute(_)
AnyEmptyRoute(solutions) ==
    IF solutions = <<>> THEN FALSE
    ELSE HasEmptyRoute(Head(solutions)) \/ AnyEmptyRoute(Tail(solutions))

update_pheromones(pheromone_amt, best_solution, solutions, params, pheromones) ==
    LET reward_deposit ==
            RDiv(params.rho, RInt(total_cost_no_service_time_with(best_solution)))
        penalty_deposit == RMul(params.rho, pheromone_amt)
    IN  IF \/ HasEmptyRoute(best_solution) \/ AnyEmptyRoute(solutions)
           \/ MissingKey(pheromones, SolutionEdges(best_solution))
           \/ MissingKey(pheromones, AllEdges(solutions))
        THEN [panic |-> TRUE]
        ELSE [panic |-> FALSE,
              pheromones |->
                  Evaporate(Evaporate(pheromones, SolutionEdges(best_solution),
                                      params.rho, reward_deposit),
                            AllEdges(solutions), params.rho, penalty_deposit)]

\* Values rng.gen::<f32>() can return: it is uniform on [0, 1).
UnitSamples == { <<0, 1>>, <<1, 2>> }

None == [kind |-> "none"]
Some(loc) == [kind |-> "some", loc |-> loc]
Failed == [kind |-> "panic"]

\* Whether the weight computed for `next` is not finite: a zero cost under a
\* positive exponent beta, or an infinite pheromone under a positive alpha.
WeightNotFinite(current, next, current_cost, params, pheromones) ==
    \/ params.beta > 0 /\ cost_to_delivery_window(current, next, current_cost) = 0
    \/ params.alpha > 0 /\ IsInf(pheromones[<<current, next>>])

\* select_next_location: the set of its possible outcomes (None, Some(location), or
\* a panic in expect), over the values of rng.gen() and of dist.sample().
select_next_location(current, unvisited, current_cost, remaining_capacity, params, pheromones) ==
    LET cheapest == find_cheapest_deliverable(current, unvisited, current_cost,
                                              remaining_capacity)
        reachable_customers == find_deliverable(current, unvisited, current_cost,
                                                remaining_capacity)
        exploit == IF cheapest.some THEN {Some(cheapest.cheapest)} ELSE {None}
        explore ==
            IF reachable_customers = <<>> THEN {None}
            ELSE IF \E i \in 1..Len(reachable_customers) :
                        \/ <<current, reachable_customers[i]>> \notin DOMAIN pheromones
                        \/ WeightNotFinite(current, reachable_customers[i], current_cost,
                                           params, pheromones)
                 THEN {Failed}
                 ELSE { Some(reachable_customers[i]) : i \in 1..Len(reachable_customers) }
    IN  (IF \E gen \in UnitSamples : RLeq(gen, params.q0) THEN exploit ELSE {})
        \cup (IF \E gen \in UnitSamples : ~RLeq(gen, params.q0) THEN explore ELSE {})

\* No removal: the vector as it was
RemoveFirst_Keep(seq, x) == seq

\* Vec::remove(position of the first element equal to x), if there is one
RECURSIVE RemoveFirst(_, _)
RemoveFirst(seq, x) ==
    IF seq = <<>> THEN <<>>
    ELSE IF Head(seq) = x THEN Tail(seq)
    ELSE <<Head(seq)>> \o RemoveFirst(Tail(seq), x)

\* 1f32 / 4500f32, the pheromone amount when self.routes is empty
DefaultReferenceCost == 4500

ParamsPool ==
    { [n_ants |-> 1, max_iter |-> 3, max_r |-> 1, alpha |-> 1, beta |-> 1,
       rho |-> <<1, 2>>, q0 |-> <<2, 5>>],
      [n_ants |-> 2, max_iter |-> 3, max_r |-> 2, alpha |-> 1, beta |-> 1,
       rho |-> <<1, 2>>, q0 |-> <<1, 1>>],
      [n_ants |-> 0, max_iter |-> 1, max_r |-> 1, alpha |-> 1, beta |-> 1,
       rho |-> <<1, 2>>, q0 |-> <<2, 5>>],
      [n_ants |-> 1, max_iter |-> 0, max_r |-> 1, alpha |-> 1, beta |-> 1,
       rho |-> <<1, 2>>, q0 |-> <<2, 5>>] }

\* The locals of construct_routes at the head of its while loop.
ConstructAtLoopHead(a, unvisited, solution) ==
    [a EXCEPT !.pc = "construct", !.unvisited = unvisited, !.solution = solution,
              !.new_route = <<>>, !.total_demand = 0, !.current_cost = 0,
              !.current = vrp.warehouse]

\* `iter_counter > params.max_r` in the place of `iter_counter >= params.max_r`
ResetDue_Late(iter_counter, max_r) == iter_counter > max_r

\* if iter_counter >= params.max_r
ResetDue(iter_counter, max_r) == iter_counter >= max_r

RECURSIVE Evaluate(_, _)
\* for solution in solutions { if cost < best_cost { .. } }, on the fields
\* best_solution, best_cost, iter_counter of a
Evaluate(a, solutions) ==
    IF solutions = <<>> THEN a
    ELSE LET cost == total_cost_with(Head(solutions))
         IN  Evaluate(IF CostLess(cost, a.best_cost)
                      THEN [a EXCEPT !.best_solution = Head(solutions), !.best_cost = cost,
                                     !.iter_counter = 0]
                      ELSE a,
                      Tail(solutions))

\* aco_heuristic at the head of its for loop, entered with self.routes = routes.
AcoAtLoopHead(params, routes) ==
    LET pheromon_amt ==
            IF routes = <<>> THEN Rat(1, DefaultReferenceCost)
            ELSE RMul(RDiv(RInt(1), RInt(total_cost_with(routes))),
                      RInt(Len(vrp.customers)))
    IN  [pc |-> "iterate", params |-> params, pheromon_amt |-> pheromon_amt,
         pheromones |-> set_pheromones(pheromon_amt, routes, FALSE).pheromones,
         best_solution |-> <<>>, best_cost |-> INFINITY, iter_counter |-> 0,
         iter |-> 0, solutions |-> <<>>,
         unvisited |-> <<>>, solution |-> <<>>, new_route |-> <<>>,
         total_demand |-> 0, current_cost |-> 0, current |-> vrp.warehouse,
         trials |-> {},      \* history: every trial solution built so far
         stalled |-> 0,      \* history: iterations in a row, since the last reset,
                             \* in which no trial was cheaper
         resets |-> 0,       \* the "Reset pheromones" lines printed so far
         given |-> routes,   \* history: self.routes when the run was entered
         run |-> 1,          \* history: the first or the second run on these inputs
         first |-> <<>>]     \* history: the routes the first run returned

\* aco_heuristic up to the head of its for loop.  The caller has left self.routes
\* empty or, once nearest_neighbour_heuristic has returned, may have stored its
\* routes there.
AcoStart ==
    /\ aco.pc = "idle"
    /\ \/ nn.pc = "outer" /\ nn.routes = <<>>
       \/ nn.pc = "done"
    /\ \E params \in ParamsPool, routes \in {<<>>} \cup (IF nn.pc = "done" THEN {nn.result} ELSE {}) :
          /\ vrp' = [vrp EXCEPT !.routes = routes]
          /\ aco' = AcoAtLoopHead(params, routes)
    /\ UNCHANGED <<fn, args, ret, nn>>

\* for _ in 0..params.max_iter { iter_counter += 1; .. the first construct_routes call
AcoIterate ==
    /\ aco.pc = "iterate"
    /\ aco.iter < aco.params.max_iter
    /\ LET a == [aco EXCEPT !.iter = @ + 1, !.iter_counter = @ + 1, !.solutions = <<>>]
       IN  aco' = IF a.params.n_ants = 0 THEN [a EXCEPT !.pc = "update"]
                  ELSE ConstructAtLoopHead(a, vrp.customers, <<>>)
    /\ UNCHANGED <<fn, args, ret, vrp, nn>>

\* construct_routes: while !unvisited.is_empty() && solution.len() < n_vehicles { ..
ConstructStartRoute ==
    /\ aco.pc = "construct"
    /\ aco.unvisited # <<>> /\ Len(aco.solution) < vrp.n_vehicles
    /\ aco' = [aco EXCEPT !.pc = "select"]
    /\ UNCHANGED <<fn, args, ret, vrp, nn>>

\* select_next_location returns Some(next_loc)
ConstructVisit ==
    /\ aco.pc = "select"
    /\ \E next \in select_next_location(aco.current, aco.unvisited, aco.current_cost,
                       vrp.vehicle_capacity - aco.total_demand, aco.params, aco.pheromones) :
          /\ next.kind = "some"
          /\ aco' = [aco EXCEPT
                !.new_route = Append(@, next.loc),
                !.current_cost = @ + cost_to_deliver(aco.current, next.loc, aco.current_cost),
                !.total_demand = @ + next.loc.demand,
                !.unvisited = RemoveFirst(@, next.loc),
                !.current = next.loc]
    /\ UNCHANGED <<fn, args, ret, vrp, nn>>

\* select_next_location returns None: break; solution.push(new_route)
ConstructCloseRoute ==
    /\ aco.pc = "select"
    /\ None \in select_next_location(aco.current, aco.unvisited, aco.current_cost,
                   vrp.vehicle_capacity - aco.total_demand, aco.params, aco.pheromones)
    /\ aco' = ConstructAtLoopHead(aco, aco.unvisited,
                                  Append(aco.solution, Route(vrp.warehouse, aco.new_route)))
    /\ UNCHANGED <<fn, args, ret, vrp, nn>>

\* select_next_location panics in one of its expect calls
ConstructPanic ==
    /\ aco.pc = "select"
    /\ Failed \in select_next_location(aco.current, aco.unvisited, aco.current_cost,
                     vrp.vehicle_capacity - aco.total_demand, aco.params, aco.pheromones)
    /\ aco' = [aco EXCEPT !.pc = "panic"]
    /\ UNCHANGED <<fn, args, ret, vrp, nn>>

\* construct_routes returns its solution; the next ant starts, or, after the last
\* ant, update_pheromones runs
ConstructReturn ==
    /\ aco.pc = "construct"
    /\ ~(aco.unvisited # <<>> /\ Len(aco.solution) < vrp.n_vehicles)
    /\ LET solutions == Append(aco.solutions, aco.solution)
           a == [aco EXCEPT !.solutions = solutions, !.trials = @ \cup {aco.solution}]
       IN  aco' = IF Len(solutions) < aco.params.n_ants
                  THEN ConstructAtLoopHead(a, vrp.customers, <<>>)
                  ELSE [ConstructAtLoopHead(a, <<>>, <<>>) EXCEPT !.pc = "update"]
    /\ UNCHANGED <<fn, args, ret, vrp, nn>>

\* self.update_pheromones(pheromon_amt, &best_solution, &solutions, params, ..)
AcoUpdatePheromones ==
    /\ aco.pc = "update"
    /\ LET updated == update_pheromones(aco.pheromon_amt, aco.best_solution, aco.solutions,
                                        aco.params, aco.pheromones)
       IN  aco' = IF updated.panic THEN [aco EXCEPT !.pc = "panic"]
                  ELSE [aco EXCEPT !.pc = "evaluate", !.pheromones = updated.pheromones]
    /\ UNCHANGED <<fn, args, ret, vrp, nn>>

\* The rest of the loop body: the best solution is replaced by a cheaper one of
\* this iteration; after max_r iterations without that, the pheromones are reset.
AcoEvaluate ==
    /\ aco.pc = "evaluate"
    /\ LET improved == \E k \in 1..Len(aco.solutions) :
                           CostLess(total_cost_with(aco.solutions[k]), aco.best_cost)
           e == Evaluate(aco, aco.solutions)
           a == [e EXCEPT !.stalled = IF improved THEN 0 ELSE @ + 1]
       IN  IF ResetDue(a.iter_counter, a.params.max_r)
           THEN LET reset == set_pheromones(a.pheromon_amt, a.best_solution, TRUE)
                IN  /\ vrp' = [vrp EXCEPT !.routes = a.best_solution]
                    /\ aco' = IF reset.panic THEN [a EXCEPT !.pc = "panic"]
                              ELSE [a EXCEPT !.pc = "iterate", !.iter_counter = 0,
                                             !.solutions = <<>>,
                                             !.pheromones = reset.pheromones,
                                             !.stalled = 0, !.resets = @ + 1]
           ELSE /\ aco' = [a EXCEPT !.pc = "iterate", !.solutions = <<>>]
                /\ UNCHANGED vrp
    /\ UNCHANGED <<fn, args, ret, nn>>

\* After max_iter iterations: self.routes = best_solution; self
AcoReturn ==
    /\ aco.pc = "iterate"
    /\ aco.iter >= aco.params.max_iter
    /\ vrp' = [vrp EXCEPT !.routes = aco.best_solution]
    /\ aco' = [aco EXCEPT !.pc = "done"]
    /\ UNCHANGED <<fn, args, ret, nn>>

\* The caller runs aco_heuristic a second time on the same instance, the same
\* self.routes and the same AcoParams; thread_rng() is not an input of either run.
AcoRunAgain ==
    /\ aco.pc = "done" /\ aco.run = 1
    /\ vrp' = [vrp EXCEPT !.routes = aco.given]
    /\ aco' = [AcoAtLoopHead(aco.params, aco.given) EXCEPT !.run = 2, !.first = vrp.routes]
    /\ UNCHANGED <<fn, args, ret, nn>>

NextAco ==
    \/ AcoStart \/ AcoIterate \/ ConstructStartRoute \/ ConstructVisit
    \/ ConstructCloseRoute \/ ConstructPanic \/ ConstructReturn
    \/ AcoUpdatePheromones \/ AcoEvaluate \/ AcoReturn

MaxAcoCust == 2

\* Customers for the search: the trivial instance's, one nearer, one that is due on
\* arrival, one at the depot's coordinates, one too heavy for any vehicle.
AcoCustomerPool ==
    { Loc(1, 10, 0, 5, 0, 1000, 0),
      Loc(2, 5, 0, 5, 0, 100, 0),
      Loc(5, 10, 0, 5, 0, 10, 5),
      Loc(9, 0, 0, 5, 0, 1000, 0),
      Loc(7, 20, 0, 30, 0, 1000, 0) }

AcoInstances ==
    { NewVrp(w, cs, n, cap) : w \in {Depot, DepotTight},
                              cs \in SeqsUpTo(AcoCustomerPool, MaxAcoCust),
                              n \in {1, 2},
                              cap \in {5, 10} }

Init ==
    /\ fn = "none" /\ args = NoCall /\ ret = Pending
    /\ vrp \in AcoInstances
    /\ nn = NNAtLoopHead(vrp.customers, <<>>)
    /\ aco = NotRunning

Next == NextNN \/ NextAco

Spec == Init /\ [][Next]_vars

\* Two runs of aco_heuristic in a row on instances without a time limit at the depot.
TwiceInstances ==
    { NewVrp(Depot, cs, n, 10) :
        cs \in SeqsUpTo({ Loc(1, 10, 0, 5, 0, 1000, 0), Loc(2, 5, 0, 5, 0, 100, 0),
                          Loc(9, 0, 0, 5, 0, 1000, 0) }, MaxAcoCust),
        n \in {1, 2} }

InitTwice ==
    /\ fn = "none" /\ args = NoCall /\ ret = Pending
    /\ vrp \in TwiceInstances
    /\ nn = NNAtLoopHead(vrp.customers, <<>>)
    /\ aco = NotRunning

NextTwice == NextAco \/ AcoRunAgain

SpecTwice == InitTwice /\ [][NextTwice]_vars

(***************************************************************************)
(* Properties of the library functions, checked under SpecFn               *)
(***************************************************************************)

Returned(name) == fn = name /\ ret.tag = "ok"

\* The Euclidean distance of two points, over the integers.
Euclid(a, b) ==
    Sqrt(AbsDiff(a.x, b.x) * AbsDiff(a.x, b.x) + AbsDiff(a.y, b.y) * AbsDiff(a.y, b.y))

\* C6: whenever is_valid(capacity) returns true, the sum of the demands of the
\* route's customers is at most the capacity, also when that sum exceeds 65535.
C6_ValidImpliesDemandWithinCapacity ==
    (Returned("is_valid") /\ ret.val)
        => DemandSum(args.self.customers) <= args.capacity

\* Validity as the specification states it: travel from the depot through every
\* visit and back; the arrival at a node, before its waiting and service time,
\* must not exceed its due date; waiting and service are then added once.
RECURSIVE ArrivalsInTime(_, _, _, _)
ArrivalsInTime(route, i, from, departure) ==
    LET node == RouteIndex(route, i)
        arrival == departure + Euclid(from, node)
    IN  /\ arrival <= node.due_date
        /\ \/ i = RouteLen(route) - 1
           \/ ArrivalsInTime(route, i + 1, node,
                             Max(arrival, node.ready_time) + node.service_time)

SpecValid(route, capacity) ==
    /\ DemandSum(route.customers) <= capacity
    /\ ArrivalsInTime(route, 1, route.warehouse, 0)

\* C7: is_valid(capacity) returns true exactly when the demand sum is at most the
\* capacity and no arrival (travel only, service counted once) exceeds a due date.
\* Stated for the routes whose demand sum fits u16 (C6 is about the others).
C7_ValidIffSpecValid ==
    (Returned("is_valid") /\ ~TotalDemandOverflows(args.self.customers))
        => ret.val = SpecValid(args.self, args.capacity)

\* C8: cost_to(a, b, c) = c + distance(a,b) + max(0, ready(b) - (c + distance(a,b)))
\* + service(b); it is at least ready(b) + service(b) and at least c.
C8_CostToIsArrivalCost ==
    Returned("cost_to") =>
        LET c == args.current_cost
            d == Euclid(args.self, args.other)
            b == args.other
        IN  /\ ret.val = c + d + Max(0, b.ready_time - (c + d)) + b.service_time
            /\ ret.val >= b.ready_time + b.service_time
            /\ ret.val >= c

\* A call of cost_to that arrives before the ready time, and so waits.
C8_Witness ==
    /\ Returned("cost_to")
    /\ args.current_cost + Euclid(args.self, args.other) < args.other.ready_time
    /\ args.other.service_time > 0
    /\ args.current_cost > 0

\* C9: distance_to(a, b) is the Euclidean distance and is symmetric, for every
\* pair of 16-bit coordinates: nothing overflows.
C9_DistanceIsEuclidean ==
    fn = "distance_to" /\ ret # Pending
        => /\ ret.tag = "ok"
           /\ ret.val = Euclid(args.self, args.other)
           /\ ret.val = distance_to(args.other, args.self)

\* A candidate is deliverable: reached by its due date, demand within the capacity left.
Deliverable(self, c, current_cost, remaining_capacity) ==
    /\ current_cost + Euclid(self, c) <= c.due_date
    /\ c.demand <= remaining_capacity

ArrivalCost(self, c, current_cost) ==
    LET arrival == current_cost + Euclid(self, c)
    IN  arrival + Max(0, c.ready_time - arrival) + c.service_time

DeliverableIndices(self, others, current_cost, remaining_capacity) ==
    { i \in 1..Len(others) : Deliverable(self, others[i], current_cost, remaining_capacity) }

\* Index i is the first deliverable candidate of minimal arrival cost.
FirstCheapest(self, others, current_cost, remaining_capacity, i) ==
    LET D == DeliverableIndices(self, others, current_cost, remaining_capacity)
    IN  /\ i \in D
        /\ \A j \in D : /\ ArrivalCost(self, others[i], current_cost)
                            <= ArrivalCost(self, others[j], current_cost)
                        /\ ArrivalCost(self, others[j], current_cost)
                            = ArrivalCost(self, others[i], current_cost) => i <= j

RemoveAt(seq, i) == SubSeq(seq, 1, i - 1) \o SubSeq(seq, i + 1, Len(seq))

\* What find_cheapest_deliverable returns but for the remaining list: None iff no
\* candidate is deliverable, else the first deliverable candidate of minimal
\* cost_to and that cost; Rest(others, i) is the list the claim expects back.
CheapestResult(Rest(_, _)) ==
    Returned("find_cheapest_deliverable") =>
        LET D == DeliverableIndices(args.self, args.others, args.current_cost,
                                    args.remaining_capacity)
        IN  /\ ret.val.some = (D # {})
            /\ D # {} =>
                 \E i \in D :
                    /\ FirstCheapest(args.self, args.others, args.current_cost,
                                     args.remaining_capacity, i)
                    /\ ret.val.cheapest = args.others[i]
                    /\ ret.val.cost = ArrivalCost(args.self, args.others[i], args.current_cost)
                    /\ ret.val.others = Rest(args.others, i)

\* C10 as stated: the list comes back with exactly the chosen candidate removed.
C10_RemovesExactlyOne == CheapestResult(RemoveAt)

WithoutEqual(seq, i) == SelectSeq(seq, LAMBDA c : c # seq[i])

\* C10 as amended: the list comes back without the chosen candidate and without
\* every candidate equal to it, the others kept in order.
C10_RemovesEqualCandidates == CheapestResult(WithoutEqual)

\* Two distinct deliverable candidates tie for the minimum, the first is returned
\* and a third candidate stays in the list.
C10_Witness ==
    /\ Returned("find_cheapest_deliverable")
    /\ ret.val.some
    /\ \E i, j \in DeliverableIndices(args.self, args.others, args.current_cost,
                                      args.remaining_capacity) :
          /\ i < j
          /\ args.others[i] # args.others[j]
          /\ ret.val.cheapest = args.others[i]
          /\ ArrivalCost(args.self, args.others[j], args.current_cost) = ret.val.cost
    /\ Len(ret.val.others) = 2
    /\ ret.val.others[1] # ret.val.others[2]

\* The positions 0..=n of a route with n customers at which inserting the customer
\* gives a valid route.
EligiblePositions(self, customer, capacity) ==
    { p \in 0..Len(self.customers) :
        is_valid(Route(self.warehouse, InsertAt(self.customers, p, customer)), capacity) }

InsertedCost(self, customer, p) ==
    total_cost(Route(self.warehouse, InsertAt(self.customers, p, customer)))

\* C11: try_insert evaluates the positions 0..=n; it returns None iff no position
\* yields a valid route, and otherwise returns, without failing, a valid position of
\* minimal total cost together with that cost.
C11_TryInsertFindsBest ==
    (fn = "try_insert" /\ ret # Pending) =>
        LET eligible == EligiblePositions(args.self, args.customer, args.capacity)
        IN  /\ ret # Panic
            /\ ~ret.val.some <=> eligible = {}
            /\ ret.val.some =>
                 /\ ret.val.index \in eligible
                 /\ ret.val.cost = InsertedCost(args.self, args.customer, ret.val.index)
                 /\ \A p \in eligible :
                        ret.val.cost <= InsertedCost(args.self, args.customer, p)

(***************************************************************************)
(* Properties of nearest_neighbour_heuristic, checked under SpecNN         *)
(***************************************************************************)

RECURSIVE Flatten(_)
\* The customers of a list of routes, in visiting order.
Flatten(routes) ==
    IF routes = <<>> THEN <<>> ELSE Head(routes).customers \o Flatten(Tail(routes))

Occurrences(seq, x) == Cardinality({ i \in 1..Len(seq) : seq[i] = x })

DistinctIds(customers) ==
    \A i, j \in 1..Len(customers) : i # j => customers[i].id # customers[j].id

\* The scenario of C2: customers (5,0), (10,0), (20,0), demand 5, window [0,100],
\* capacity 20, given in any order.
Scenario ==
    /\ vrp.warehouse = Depot
    /\ vrp.vehicle_capacity = 20
    /\ Len(vrp.customers) = 3
    /\ { vrp.customers[i] : i \in 1..3 }
         = { Loc(2, 5, 0, 5, 0, 100, 0), Loc(3, 10, 0, 5, 0, 100, 0), Loc(4, 20, 0, 5, 0, 100, 0) }

ScenarioOrder(routes) ==
    /\ Len(routes) = 1
    /\ routes[1].warehouse = Depot
    /\ routes[1].customers
         = << Loc(2, 5, 0, 5, 0, 100, 0), Loc(3, 10, 0, 5, 0, 100, 0), Loc(4, 20, 0, 5, 0, 100, 0) >>

\* C2 as stated: on the scenario the heuristic returns the single route
\* (5,0), (10,0), (20,0), whose total distance is 20.
C2_ScenarioDistance20 ==
    (nn.pc = "done" /\ Scenario)
        => ScenarioOrder(nn.result) /\ total_distance(nn.result[1]) = 20

\* C2 as amended: the same route; its total distance, depot to depot, is 40.
C2_ScenarioDistance40 ==
    (nn.pc = "done" /\ Scenario)
        => ScenarioOrder(nn.result) /\ total_distance(nn.result[1]) = 40

\* The heuristic has returned on the scenario, the customers given farthest first.
C2_Witness ==
    /\ nn.pc = "done" /\ Scenario
    /\ vrp.customers[1].x = 20 /\ vrp.customers[3].x = 5

\* C3: the heuristic terminates on every instance.  The outer loop reads nothing
\* but `customers`, so a pass that closes a route without taking a customer repeats
\* forever: the heuristic terminates iff it never closes more routes than there
\* are customers.
C3_NNTerminates == Len(nn.routes) <= Len(vrp.customers)

\* C4: when the heuristic returns on customers of pairwise distinct ids, its routes
\* hold every customer exactly once.
C4_EveryCustomerOnce ==
    (nn.pc = "done" /\ DistinctIds(vrp.customers))
        => /\ Len(Flatten(nn.result)) = Len(vrp.customers)
           /\ \A i \in 1..Len(vrp.customers) :
                 Occurrences(Flatten(nn.result), vrp.customers[i]) = 1

\* The heuristic has returned three customers of distinct ids in two or more routes.
C4_Witness ==
    /\ nn.pc = "done" /\ DistinctIds(vrp.customers)
    /\ Len(vrp.customers) = 3
    /\ Len(nn.result) >= 2

RECURSIVE ChainCostFrom(_, _, _)
\* cost_to applied along customers, starting at current with the cost so far
ChainCostFrom(current, customers, cost) ==
    IF customers = <<>> THEN cost
    ELSE ChainCostFrom(Head(customers), Tail(customers),
                       cost_to(current, Head(customers), cost))

\* The cumulative cost of reaching the last customer of a partial route from the
\* depot: the cost of the route without the return leg.
ChainCost(warehouse, customers) == ChainCostFrom(warehouse, customers, 0)

\* C22 (nearest_neighbour_heuristic): the cumulative cost used to select the next
\* customer after appending customer c equals the cumulative cost of reaching c
\* along the route built so far.
C22_SelectionCostIsArrivalCost ==
    nn.pc = "inner" => nn.cost = ChainCost(vrp.warehouse, nn.route)

(***************************************************************************)
(* Properties of the two heuristics together, checked under Spec           *)
(***************************************************************************)

\* The trivial instance: depot at (0,0), one customer at (10,0) with demand 5,
\* window [0,1000], service time 0, capacity >= 5, at least one vehicle.
TrivialCustomer == Loc(1, 10, 0, 5, 0, 1000, 0)

TrivialInstance ==
    /\ vrp.warehouse.x = 0 /\ vrp.warehouse.y = 0
    /\ vrp.customers = <<TrivialCustomer>>
    /\ vrp.vehicle_capacity >= 5
    /\ vrp.n_vehicles >= 1

\* The search runs at least one iteration with at least one ant.
AcoSearches == aco.params.n_ants >= 1 /\ aco.params.max_iter >= 1

\* routes is the single route [depot, customer, depot] of the trivial instance
SingleTrivialRoute(routes) == routes = <<Route(vrp.warehouse, <<TrivialCustomer>>)>>

\* C1, as stated: on the trivial instance both nearest_neighbour_heuristic and
\* aco_heuristic produce exactly one route [depot, customer, depot] whose total cost
\* is exactly 10 and for which is_valid(capacity) is true.
C1_TrivialCost10 ==
    /\ (TrivialInstance /\ nn.pc = "done") =>
          /\ SingleTrivialRoute(nn.result)
          /\ total_cost_with(nn.result) = 10
          /\ is_valid(nn.result[1], vrp.vehicle_capacity)
    /\ (TrivialInstance /\ aco.pc = "done" /\ AcoSearches) =>
          /\ SingleTrivialRoute(vrp.routes)
          /\ total_cost_with(vrp.routes) = 10
          /\ is_valid(vrp.routes[1], vrp.vehicle_capacity)

\* C1, amended: on the trivial instance both nearest_neighbour_heuristic and
\* aco_heuristic (with at least one ant and one iteration) produce exactly one route
\* [depot, customer, depot]; its total cost is exactly 20, the way out and the way
\* back, and is_valid(capacity) is true exactly when the depot's due date is at
\* least 20.
C1_TrivialCost20 ==
    /\ (TrivialInstance /\ nn.pc = "done") =>
          /\ SingleTrivialRoute(nn.result)
          /\ total_cost_with(nn.result) = 20
          /\ is_valid(nn.result[1], vrp.vehicle_capacity) <=> vrp.warehouse.due_date >= 20
    /\ (TrivialInstance /\ aco.pc = "done" /\ AcoSearches) =>
          /\ SingleTrivialRoute(vrp.routes)
          /\ total_cost_with(vrp.routes) = 20
          /\ is_valid(vrp.routes[1], vrp.vehicle_capacity) <=> vrp.warehouse.due_date >= 20

\* Both heuristics have returned on the trivial instance, the search having run.
C1_Witness ==
    /\ TrivialInstance
    /\ nn.pc = "done" /\ SingleTrivialRoute(nn.result)
    /\ aco.pc = "done" /\ AcoSearches /\ SingleTrivialRoute(vrp.routes)
    /\ vrp.warehouse.due_date >= 20

AcoRunning == aco.pc \notin {"idle"}

\* C12, within the run: the best-known solution is replaced only by a trial solution
\* of strictly lower total cost, and the best-known cost never increases.
BestOnlyImproves ==
    (AcoRunning /\ aco'.best_solution # aco.best_solution) =>
        /\ aco'.best_solution \in aco.trials
        /\ aco'.best_cost = total_cost_with(aco'.best_solution)
        /\ aco.best_cost = INFINITY \/ aco'.best_cost < aco.best_cost

BestCostNonIncreasing ==
    AcoRunning => (aco.best_cost = INFINITY \/ (aco'.best_cost # INFINITY
                                                  /\ aco'.best_cost <= aco.best_cost))

\* C12, on return: vrp.routes is a trial solution whose total cost is the minimum
\* over the costs of all trials of all iterations.
ReturnsCheapestTrial ==
    (aco.pc = "done" /\ aco.trials # {}) =>
        /\ vrp.routes \in aco.trials
        /\ \A t \in aco.trials : total_cost_with(vrp.routes) <= total_cost_with(t)

\* C12: in aco_heuristic the best-known solution is replaced only by a trial solution
\* of strictly lower total cost, so the best-known cost is non-increasing, and on
\* return vrp.routes is a trial solution of minimal total cost among all trials.
C12_BestIsCheapestTrial ==
    /\ [][BestOnlyImproves /\ BestCostNonIncreasing]_vars
    /\ []ReturnsCheapestTrial

\* The search has returned after two trials of different cost.
C12_Witness ==
    /\ aco.pc = "done"
    /\ \E t1, t2 \in aco.trials : total_cost_with(t1) < total_cost_with(t2)
    /\ vrp.routes \in aco.trials

\* Every customer alone fits a vehicle and can be reached from the depot in time.
StructurallyValid ==
    \A i \in 1..Len(vrp.customers) :
        /\ vrp.customers[i].demand <= vrp.vehicle_capacity
        /\ distance_to(vrp.warehouse, vrp.customers[i]) <= vrp.customers[i].due_date

CoversEveryCustomerOnce(routes) ==
    /\ Len(Flatten(routes)) = Len(vrp.customers)
    /\ \A i \in 1..Len(vrp.customers) : Occurrences(Flatten(routes), vrp.customers[i]) = 1

\* C13: a trial that reaches the fleet-size limit with customers unassigned is never
\* adopted as the best-known solution nor returned as a complete solution: the
\* best-known solution, once there is one, and the solution in vrp.routes on return
\* cover every customer exactly once.  Stated for instances with customers of
\* distinct ids that are each deliverable alone.
C13_StoredSolutionCoversAll ==
    (DistinctIds(vrp.customers) /\ StructurallyValid /\ AcoRunning /\ AcoSearches) =>
        /\ aco.best_solution # <<>> => CoversEveryCustomerOnce(aco.best_solution)
        /\ aco.pc = "done" => CoversEveryCustomerOnce(vrp.routes)

\* n times the deposit
Times(n, deposit) == IF n = 0 THEN <<0, 1>> ELSE RMul(RInt(n), deposit)

\* The entry for key after one update in the fixed order: evaporated once by the
\* factor (1 - rho), then the best-solution deposit for each use of the edge by the
\* best-known solution, then the per-trial deposit for each use by a trial.
EvaporatedOnceThenDeposits(key) ==
    LET rho == aco.params.rho
        reward_deposit ==
            RDiv(rho, RInt(total_cost_no_service_time_with(aco.best_solution)))
        penalty_deposit == RMul(rho, aco.pheromon_amt)
    IN  RAdd(RMul(ROneMinus(rho), aco.pheromones[key]),
             RAdd(Times(Occurrences(SolutionEdges(aco.best_solution), key), reward_deposit),
                  Times(Occurrences(AllEdges(aco.solutions), key), penalty_deposit)))

UpdateEvaporatesEveryEntry ==
    (aco.pc = "update" /\ aco'.pc = "evaluate" /\ AcoSearches) =>
        \A key \in DOMAIN aco.pheromones :
            aco'.pheromones[key] = EvaporatedOnceThenDeposits(key)

\* C14: in every iteration the pheromone update evaporates every entry of the map by
\* the factor (1 - rho) exactly once, the entries of edges used neither by the
\* best-known solution nor by a trial included, and only afterwards adds the
\* best-solution deposit and then the per-trial deposit.
C14_UpdateEvaporatesAll == [][UpdateEvaporatesEveryEntry]_vars

\* One pass through the end of an iteration: a reset happens exactly when the
\* iterations without improvement, this one included, have reached max_r, and then
\* exactly once, leaving the counter at 0 and vrp.routes equal to the best-known
\* solution.
ResetExactlyWhenStalled ==
    (aco.pc = "evaluate" /\ aco'.pc = "iterate") =>
        LET improved == \E k \in 1..Len(aco.solutions) :
                            CostLess(total_cost_with(aco.solutions[k]), aco.best_cost)
            without == IF improved THEN 0 ELSE aco.stalled + 1
        IN  IF without = aco.params.max_r
            THEN /\ aco'.resets = aco.resets + 1
                 /\ aco'.iter_counter = 0
                 /\ vrp'.routes = aco'.best_solution
                 /\ aco'.pheromones
                        = set_pheromones(aco.pheromon_amt, aco'.best_solution, TRUE).pheromones
            ELSE /\ aco'.resets = aco.resets
                 /\ aco'.pheromones = aco.pheromones
                 /\ without < aco.params.max_r

NoResetElsewhere ==
    (AcoRunning /\ aco.pc # "evaluate") => aco'.resets = aco.resets

CounterWithinMaxR == AcoRunning => aco.iter_counter <= aco.params.max_r

\* C15: a pheromone reset happens at the end of an iteration exactly when the number
\* of consecutive iterations without improvement of the best-known cost has reached
\* max_r; each occurrence triggers exactly one reset, after which the stagnation
\* counter is 0 and vrp.routes equals the best-known solution; the counter never
\* exceeds max_r.  (max_r >= 1, as in every AcoParams of the model.)
C15_ResetWhenStalled ==
    /\ [][ResetExactlyWhenStalled /\ NoResetElsewhere]_vars
    /\ []CounterWithinMaxR

\* A reset after two iterations in a row without improvement (max_r = 2), the
\* best-known solution being in vrp.routes.
C15_Witness ==
    /\ AcoRunning /\ aco.params.max_r = 2 /\ aco.resets = 1
    /\ aco.iter_counter = 0 /\ aco.best_solution # <<>> /\ vrp.routes = aco.best_solution

\* The directed edges a solution uses: depot->first, consecutive customers,
\* last->depot of each route.
UsedEdges(routes) ==
    UNION { { <<RouteIndex(routes[r], i - 1), RouteIndex(routes[r], i)>> :
                 i \in 1..(Len(routes[r].customers) + 1) } : r \in 1..Len(routes) }

Locations == { vrp.customers[i] : i \in 1..Len(vrp.customers) } \cup {vrp.warehouse}

\* The map right after a reset: the baseline everywhere, plus the deposit
\* 1 / total cost on the edges of the best-known solution.
ResetLeavesBaselinePlusDeposits ==
    (AcoRunning /\ aco'.resets = aco.resets + 1 /\ DistinctIds(vrp.customers)) =>
        LET baseline == aco.pheromon_amt
            deposit == RDiv(RInt(1), RInt(total_cost_with(aco'.best_solution)))
        IN  /\ DOMAIN aco'.pheromones = { k \in Locations \X Locations : k[1] # k[2] }
            /\ \A key \in DOMAIN aco'.pheromones :
                  aco'.pheromones[key] = IF key \in UsedEdges(aco'.best_solution)
                                         THEN RAdd(baseline, deposit)
                                         ELSE baseline

NonNegative(r) == r[1] >= 0 /\ r[2] >= 0

\* C17: with rho in (0,1) and a positive baseline, every pheromone entry is
\* non-negative after initialisation, after every update_pheromones call and after
\* every reset, in every iteration of aco_heuristic.
C17_PheromonesNonNegative ==
    AcoRunning => \A key \in DOMAIN aco.pheromones : NonNegative(aco.pheromones[key])

\* After an update and a reset, in the second iteration or later, with an entry
\* that has left the baseline.
C17_Witness ==
    /\ AcoRunning /\ aco.pc = "evaluate" /\ aco.iter >= 2 /\ aco.resets >= 1
    /\ \E key \in DOMAIN aco.pheromones : aco.pheromones[key] # aco.pheromon_amt

\* C19: aco_heuristic records a cost history with exactly one entry per completed
\* iteration (max_iter entries on return), the i-th entry being the best-known cost
\* at the end of iteration i.  Between two iterations and on return the history has
\* aco.iter entries and its last entry is the best-known cost; being extended by one
\* entry per iteration, it is append-only, and non-increasing by C12.
C19_HistoryPerIteration ==
    (AcoRunning /\ AcoSearches /\ aco.pc \in {"iterate", "done"}) =>
        /\ vrp.heuristic_cost_history.some
        /\ Len(vrp.heuristic_cost_history.val) = aco.iter
        /\ aco.iter >= 1 => vrp.heuristic_cost_history.val[aco.iter] = aco.best_cost

\* The candidates select_next_location weighs in the current state of construct_routes
Candidates ==
    find_deliverable(aco.current, aco.unvisited, aco.current_cost,
                     vrp.vehicle_capacity - aco.total_demand)

\* C20: in select_next_location a zero cost between the current location and a
\* deliverable candidate is clamped before the reciprocal is taken, so that every
\* weight is finite and building the sampling distribution never fails: no call of
\* select_next_location ends in the panic of a non-finite weight.  Stated for
\* the calls in which every candidate has a finite pheromone entry, so that the
\* cost is the only possible source of a non-finite weight.
C20_ZeroCostClamped ==
    (/\ AcoRunning /\ aco.pc = "select"
     /\ \A i \in 1..Len(Candidates) :
           /\ <<aco.current, Candidates[i]>> \in DOMAIN aco.pheromones
           /\ ~IsInf(aco.pheromones[<<aco.current, Candidates[i]>>]))
        => Failed \notin select_next_location(aco.current, aco.unvisited,
                              aco.current_cost, vrp.vehicle_capacity - aco.total_demand,
                              aco.params, aco.pheromones)

\* C21: within one iteration the evaluation of the trials precedes the pheromone
\* update: when update_pheromones runs, the best-known solution it reinforces is the
\* best over all trials built so far, those of this iteration included, and in the
\* first iteration there is one.
C21_UpdateSeesEvaluatedBest ==
    (AcoRunning /\ AcoSearches /\ aco.pc = "update") =>
        /\ aco.best_solution \in aco.trials
        /\ \A t \in aco.trials :
              total_cost_with(aco.best_solution) <= total_cost_with(t)

InConstruct(a) == a.pc \in {"construct", "select"}

\* What is left to do in a call of construct_routes: twice the customers unassigned
\* plus the routes the fleet still allows, plus one at the head of the while loop.
Measure(a) ==
    2 * (Len(a.unvisited) + vrp.n_vehicles - Len(a.solution))
        + (IF a.pc = "construct" THEN 1 ELSE 0)

\* Every step inside one call of construct_routes removes one customer from the
\* unvisited set, or closes the route, or starts a route while customers remain and
\* the fleet allows one more; each of them lowers the measure.
ConstructProgresses ==
    (AcoRunning /\ InConstruct(aco) /\ InConstruct(aco') /\ aco'.solutions = aco.solutions)
        => /\ Measure(aco') < Measure(aco)
           /\ \/ /\ Len(aco'.unvisited) = Len(aco.unvisited) - 1
                 /\ aco'.solution = aco.solution
              \/ /\ Len(aco'.solution) = Len(aco.solution) + 1
                 /\ aco'.unvisited = aco.unvisited
              \/ /\ aco.pc = "construct" /\ aco'.pc = "select"
                 /\ aco.unvisited # <<>> /\ Len(aco.solution) < vrp.n_vehicles
                 /\ aco'.unvisited = aco.unvisited /\ aco'.solution = aco.solution

WithinFleet ==
    AcoRunning =>
        /\ Measure(aco) >= 0
        /\ Len(aco.solution) <= vrp.n_vehicles
        /\ \A t \in aco.trials : Len(t) <= vrp.n_vehicles

\* C23: every trial solution returned by construct_routes has at most n_vehicles
\* routes, a new route is started only while customers remain unassigned and fewer
\* than n_vehicles routes exist, and construct_routes terminates: each step removes
\* one customer from the unvisited set or closes the route, so a measure that is
\* never negative falls with every step.
C23_ConstructBoundedAndTerminates ==
    /\ [][ConstructProgresses]_vars
    /\ []WithinFleet

\* A trial has returned with as many routes as there are vehicles, two.
C23_Witness ==
    /\ AcoRunning /\ aco.pc = "update" /\ vrp.n_vehicles = 2
    /\ \E t \in aco.trials : Len(t) = 2 /\ Len(Flatten(t)) = 2

\* The outcomes of the call of select_next_location that construct_routes makes in
\* the state a.
SelectOutcomes(a) ==
    select_next_location(a.current, a.unvisited, a.current_cost,
                         vrp.vehicle_capacity - a.total_demand, a.params, a.pheromones)

\* Every customer returned is an unvisited one that is deliverable, and None is a
\* possible outcome exactly when no unvisited customer is deliverable.
SelectsDeliverableUnvisited ==
    aco.pc = "select" =>
        LET remaining == vrp.vehicle_capacity - aco.total_demand
            D == DeliverableIndices(aco.current, aco.unvisited, aco.current_cost, remaining)
        IN  /\ \A o \in SelectOutcomes(aco) :
                   o.kind = "some" => \E i \in D : aco.unvisited[i] = o.loc
            /\ None \in SelectOutcomes(aco) <=> D = {}
            /\ D = {} => SelectOutcomes(aco) = {None}

\* The customers assigned so far in a trial and those still unvisited are together
\* the customers of the instance, each as often as it is listed there.
NoCustomerTwice ==
    /\ (AcoRunning /\ InConstruct(aco)) =>
           \A c \in AcoCustomerPool :
               Occurrences(Flatten(aco.solution) \o aco.new_route \o aco.unvisited, c)
                   = Occurrences(vrp.customers, c)
    /\ AcoRunning =>
           \A t \in aco.trials : \A c \in AcoCustomerPool :
               Occurrences(Flatten(t), c) <= Occurrences(vrp.customers, c)

\* vehicle_capacity - total_demand is never below zero
CapacityNeverUnderflows ==
    AcoRunning => aco.total_demand <= vrp.vehicle_capacity

\* C24: in every trial, whichever branch of the transition rule is taken, the customer
\* returned by select_next_location is an unvisited customer that is deliverable
\* (current_cost + distance <= due_date and demand <= remaining capacity), None is
\* returned iff no unvisited customer is deliverable, no customer appears twice in a
\* trial solution, and vehicle_capacity - total_demand never underflows.
C24_SelectsDeliverableUnvisited ==
    SelectsDeliverableUnvisited /\ NoCustomerTwice /\ CapacityNeverUnderflows

\* A second customer is about to be selected for a route, both branches of the rule
\* being possible, and a customer is deliverable with the capacity that remains.
C24_Witness ==
    /\ aco.pc = "select" /\ aco.params.q0 # <<1, 1>>
    /\ Len(aco.new_route) = 1 /\ aco.total_demand > 0
    /\ \E o \in SelectOutcomes(aco) : o.kind = "some"

\* The ordered pairs of distinct locations among the customers and the depot
DistinctPairs == { k \in Locations \X Locations : k[1] # k[2] }

\* Right after initialisation, before the first iteration, the map holds the
\* baseline for every ordered pair of distinct locations; it keeps an entry for
\* each of these pairs from then on.
InitialisedToBaseline ==
    /\ (aco.pc = "iterate" /\ aco.iter = 0) =>
           /\ DOMAIN aco.pheromones = DistinctPairs
           /\ \A k \in DistinctPairs : aco.pheromones[k] = aco.pheromon_amt
    /\ AcoRunning => DistinctPairs \subseteq DOMAIN aco.pheromones

\* The keys looked up by select_next_location in the state a: (current, next) for
\* every deliverable customer next.
SelectLookups(a) ==
    LET reachable_customers == find_deliverable(a.current, a.unvisited, a.current_cost, vrp.vehicle_capacity - a.total_demand)
    IN  { <<a.current, reachable_customers[i]>> : i \in 1..Len(reachable_customers) }

\* The keys update_pheromones and a reset take from the routes of routes that have a
\* customer.
RouteLookups(routes) ==
    UsedEdges(SelectSeq(routes, LAMBDA route : route.customers # <<>>))

\* Every key looked up during construction, by update_pheromones or by a reset has
\* an entry.
LookupsFindEntry ==
    /\ aco.pc = "select" => SelectLookups(aco) \subseteq DOMAIN aco.pheromones
    /\ aco.pc \in {"update", "evaluate"} =>
           /\ RouteLookups(aco.best_solution) \subseteq DOMAIN aco.pheromones
           /\ \A k \in 1..Len(aco.solutions) :
                  RouteLookups(aco.solutions[k]) \subseteq DOMAIN aco.pheromones

HandedRoutesHaveCustomer ==
    aco.pc \in {"update", "evaluate"} =>
        /\ ~HasEmptyRoute(aco.best_solution)
        /\ ~AnyEmptyRoute(aco.solutions)

\* The call of update_pheromones that aco_heuristic is about to make does not fail.
UpdateDoesNotFail ==
    aco.pc = "update" =>
        ~update_pheromones(aco.pheromon_amt, aco.best_solution, aco.solutions,
                           aco.params, aco.pheromones).panic

\* C26: aco_heuristic completes its iterations without a runtime failure for every
\* instance: every route handed to update_pheromones and to a reset has at least one
\* customer, so that taking the first and the last customer of a route never fails,
\* also when some customer is not deliverable from the depot and when the customer
\* list is empty.  The failure meant is that of update_pheromones and of the reset;
\* stated for instances whose locations have distinct identifiers.
C26_NoRuntimeFailure ==
    (AcoRunning /\ DistinctIds(vrp.customers)) =>
        (HandedRoutesHaveCustomer /\ UpdateDoesNotFail)

\* is_valid(vehicle_capacity) is true for every route of routes
AllValid(routes) ==
    \A i \in 1..Len(routes) : is_valid(routes[i], vrp.vehicle_capacity)

\* C5: every route produced by nearest_neighbour_heuristic and every route of every
\* trial solution built by construct_routes is feasible: is_valid(vehicle_capacity)
\* is true for it, the return to the depot within the depot's due date included.
C5_ProducedRoutesValid ==
    /\ nn.pc = "done" => AllValid(nn.result)
    /\ aco.pc \notin {"idle", "panic"} =>
          /\ AllValid(aco.solution)
          /\ \A k \in 1..Len(aco.solutions) : AllValid(aco.solutions[k])

(***************************************************************************)
(* Properties of two runs in a row, checked under SpecTwice                *)
(***************************************************************************)

\* C18: running aco_heuristic twice on identical inputs (same instance, same
\* AcoParams) with an identical seeded random source produces identical route
\* sequences and identical total cost.  aco_heuristic takes no random source: the
\* inputs of the two runs are all the caller can make identical.
C18_SecondRunRepeatsFirst ==
    (AcoRunning /\ aco.run = 2 /\ aco.pc = "done") =>
        /\ vrp.routes = aco.first
        /\ total_cost_with(vrp.routes) = total_cost_with(aco.first)

====
